---- MODULE Spec2Model ----
(***************************************************************************)
(* Model of the qw-jumble multiplayer word game.                           *)
(*                                                                         *)
(*   - the games table and the three SQL functions join_game,              *)
(*     submit_guess and update_game_status                                 *)
(*     (supabase/migrations/20240227000000_initial_schema.sql);            *)
(*   - gameService (lib/supabase): getGame, createGame, joinGame,          *)
(*     subscribeToGame, updateGameStatus;                                  *)
(*   - useGameStore (src/store/gameStore.ts): the per-viewer mirror        *)
(*     (game, currentPlayer, isHost, error) and its actions.               *)
(*                                                                         *)
(* Every SQL statement is one atomic step on the row (PostgreSQL READ      *)
(* COMMITTED: an UPDATE re-evaluates its WHERE and SET on the latest row   *)
(* version).  A plpgsql function made of several statements is several     *)
(* steps; a client action made of several awaits is several steps.         *)
(*                                                                         *)
(* SQL NULL / JS null is <<>> for json values and rows (a present value x  *)
(* is <<x>>), 0 for timestamps, -1 for v_player_index, "" for error.       *)
(* Texts (word, guess) are sequences of one-character strings.             *)
(***************************************************************************)
EXTENDS Integers, Sequences, FiniteSets, TLC

\* ---- bounds of the model ----
\* browsers running createGame / joinGame
NumViewers == 2
\* submit_guess calls in flight at once
MaxCalls == 2
\* submit_guess and update_game_status calls made in all
MaxRpcCalls == 3

\* ---- program constants ----
MaxPlayers == 8
WORD_LENGTH == 5

Viewers == 1..NumViewers
Calls == 1..MaxCalls

NullTs == 0
NullIdx == -1
UnknownId == 0

Names == {"ann"}

CRANE == <<"C", "R", "A", "N", "E">>
SLATE == <<"S", "L", "A", "T", "E">>
Words == {<<"c", "r", "a", "n", "e">>, <<"a", "b">>}

AllCorrect == [i \in 1..WORD_LENGTH |-> "correct"]
Mixed == [i \in 1..WORD_LENGTH |-> IF i = 1 THEN "correct" ELSE IF i = 2 THEN "present" ELSE "absent"]
\* what a caller submits: a guess and the result vector it evaluated for it
Submissions == {<<CRANE, AllCorrect>>, <<SLATE, Mixed>>}

\* String.prototype.toUpperCase on one character
UpperChar(ch) ==
  CASE ch = "a" -> "A" [] ch = "b" -> "B" [] ch = "c" -> "C" [] ch = "e" -> "E"
    [] ch = "n" -> "N" [] ch = "r" -> "R" [] OTHER -> ch

\* createGame storing the word as it was typed
toUpperCaseSkipped(w) == w

toUpperCase(w) == [i \in DOMAIN w |-> UpperChar(w[i])]

\* a generator that returns the same value to every call
randomUUIDRepeats(v) == 1

\* crypto.randomUUID(): a value no other call returns; one per viewer flow
randomUUID(v) == v

VARIABLES
  games,          \* the games table: sequence of rows, a row's id is its index
  pc,             \* per viewer: position in createGame / joinGame
  gameId,         \* per viewer: the gameId of the running createGame / joinGame
  sub,            \* per viewer: realtime subscription "none" | "pending" | "active"
  feedQ,          \* per viewer: postgres_changes payloads in flight
  fetch,          \* per viewer: catch-up getGame "none" | "requested" | "responded"
  fetchResp,      \* per viewer: the row the catch-up getGame read (<<>> until read)
  game,           \* per viewer: store field game (<<>> is null)
  currentPlayer,  \* per viewer: store field currentPlayer (<<>> is null)
  isHost,         \* per viewer: store field isHost
  error,          \* per viewer: store field error ("" is null)
  calls,          \* submit_guess invocations in flight
  rpcCount,       \* number of submit_guess and update_game_status calls made
  applied,        \* history: the submit_guess updates that changed a row, in order
  ser             \* history: the table as the one-at-a-time execution leaves it

vars == <<games, pc, gameId, sub, feedQ, fetch, fetchResp, game, currentPlayer, isHost, error,
          calls, rpcCount, applied, ser>>

\* Date.now(): a clock that ticks with every call that reads it
Now == rpcCount + 1

IdleCall == [pc |-> "idle", p_game_id |-> 0, p_player_id |-> 0, p_guess |-> <<>>,
             p_result |-> <<>>, v_players |-> <<>>, v_player_index |-> NullIdx,
             outcome |-> "none"]

\* ---------------------------------------------------------------------------
\* The games table and the SQL functions
\* ---------------------------------------------------------------------------

\* insert into games (host_id, word, status, players); ver counts the writes
\* to the row (history, not a column)
NewRow(id, host_id, word) ==
  [id |-> id, host_id |-> host_id, word |-> word, status |-> "waiting",
   players |-> <<>>, started_at |-> NullTs, ended_at |-> NullTs, winner |-> <<>>,
   ver |-> 1]

\* check (length(word) = 5)
WordCheck(word) == Len(word) = WORD_LENGTH

NewPlayer(id, name) ==
  [id |-> id, name |-> name, guesses |-> <<>>, results |-> <<>>, solved |-> FALSE]

\* jsonb || : array || array concatenates, array || non-array appends
JsonbConcatArrays(a, b) == a \o b
JsonbConcatElement(a, x) == Append(a, x)

\* join_game without the limit on the number of players
JoinGameWhereNoLimit(row) == row.status = "waiting"

\* join_game without the test of status
JoinGameWhereNoStatus(row) == Len(row.players) < MaxPlayers

\* join_game leaving both tests to the pre-check of its caller
JoinGameWhereUnchecked(row) == TRUE

\* join_game: the WHERE clause of its UPDATE
JoinGameWhere(row) ==
  /\ row.status = "waiting"
  /\ Len(row.players) < MaxPlayers

\* join_game(p_game_id, p_player) on the row it addresses
JoinGameUpdate(row, p_player) ==
  IF JoinGameWhere(row)
  THEN [row EXCEPT !.players = JsonbConcatElement(row.players, p_player),
                   !.ver = @ + 1]
  ELSE row

\* submit_guess: select players into v_players ... and status = 'playing'
SubmitGuessSelectPlayers(row) ==
  IF row.status = "playing" THEN <<row.players>> ELSE <<>>

\* submit_guess: select ordinality - 1 into v_player_index ... where value->>'id' = p_player_id
SubmitGuessSelectIndex(v_players, p_player_id) ==
  IF v_players = <<>> THEN NullIdx
  ELSE LET ps == v_players[1]
           hits == {i \in DOMAIN ps : ps[i].id = p_player_id}
       IN IF hits = {} THEN NullIdx
          ELSE (CHOOSE i \in hits : \A j \in hits : i <= j) - 1

\* submit_guess: v_is_correct
IsCorrect(p_result) == ~ \E i \in DOMAIN p_result : p_result[i] # "correct"

\* submit_guess updating every session that has started
SubmitGuessWhereStarted(row) == row.status \in {"playing", "finished"}

\* submit_guess: the WHERE clause of its UPDATE
SubmitGuessWhere(row) == row.status = "playing"

\* submit_guess writing solved AND v_is_correct
SubmitGuessSolvedAnd(player, v_is_correct) == player.solved /\ v_is_correct

\* submit_guess: the value written to players[v_player_index].solved
SubmitGuessSolved(player, v_is_correct) == v_is_correct

\* submit_guess: the value written to players[v_player_index].results
SubmitGuessResults(player, p_result) == JsonbConcatArrays(player.results, p_result)

\* submit_guess: the value written to players[v_player_index].guesses
SubmitGuessGuesses(player, p_guess) == JsonbConcatElement(player.guesses, p_guess)

\* submit_guess taking the player out of players and appending the updated entry
SubmitGuessPlayersReappend(players, v_player_index, p_guess, p_result) ==
  LET i == v_player_index + 1
      old == players[i]
      upd == [old EXCEPT !.guesses = SubmitGuessGuesses(old, p_guess),
                         !.results = SubmitGuessResults(old, p_result),
                         !.solved = SubmitGuessSolved(old, IsCorrect(p_result))]
  IN Append(SelectSeq(players, LAMBDA q : q.id # old.id), upd)

\* submit_guess: set players = jsonb_set(jsonb_set(jsonb_set(players, ...)))
SubmitGuessPlayers(players, v_player_index, p_guess, p_result) ==
  LET i == v_player_index + 1
      old == players[i]
  IN [players EXCEPT ![i] =
        [old EXCEPT !.guesses = SubmitGuessGuesses(old, p_guess),
                    !.results = SubmitGuessResults(old, p_result),
                    !.solved = SubmitGuessSolved(old, IsCorrect(p_result))]]

\* submit_guess without the test winner is null
SubmitGuessWinnerLast(row, v_player_index, v_is_correct) ==
  IF v_is_correct
  THEN <<row.players[v_player_index + 1]>>
  ELSE row.winner

\* submit_guess: winner = case when v_is_correct and winner is null
\* then players->v_player_index else winner end (players is the row before the update)
SubmitGuessWinner(row, v_player_index, v_is_correct) ==
  IF v_is_correct /\ row.winner = <<>>
  THEN <<row.players[v_player_index + 1]>>
  ELSE row.winner

\* jsonb_set returning its target unchanged for a null path element
SubmitGuessRaisesNever(row, v_player_index) == FALSE

\* submit_guess: does the UPDATE raise?  jsonb_set rejects a null path element
SubmitGuessRaises(row, v_player_index) ==
  SubmitGuessWhere(row) /\ v_player_index = NullIdx

\* submit_guess: the UPDATE on the row it addresses
SubmitGuessUpdate(row, v_player_index, p_guess, p_result) ==
  IF SubmitGuessWhere(row) /\ v_player_index # NullIdx
  THEN [row EXCEPT
          !.players = SubmitGuessPlayers(row.players, v_player_index, p_guess, p_result),
          !.winner = SubmitGuessWinner(row, v_player_index, IsCorrect(p_result)),
          !.ver = @ + 1]
  ELSE row

\* update_game_status(p_game_id, p_status, p_started_at, p_ended_at)
UpdateGameStatus(row, p_status, p_started_at, p_ended_at) ==
  [row EXCEPT
     !.status = p_status,
     !.started_at = IF p_started_at # NullTs THEN p_started_at ELSE row.started_at,
     !.ended_at = IF p_ended_at # NullTs THEN p_ended_at ELSE row.ended_at,
     !.ver = @ + 1]

\* ---------------------------------------------------------------------------
\* gameService and the realtime feed
\* ---------------------------------------------------------------------------

\* the Game object built from a row: { ...row, hostId, startedAt, endedAt }
ToGame(row) ==
  [id |-> row.id, host_id |-> row.host_id, hostId |-> row.host_id, word |-> row.word,
   status |-> row.status, players |-> row.players,
   started_at |-> row.started_at, startedAt |-> row.started_at,
   ended_at |-> row.ended_at, endedAt |-> row.ended_at,
   winner |-> row.winner, ver |-> row.ver]

\* game.players.find(p => p.id === playerId) || null
FindPlayer(players, playerId) ==
  LET hits == {i \in DOMAIN players : players[i].id = playerId}
  IN IF hits = {} THEN <<>>
     ELSE <<players[CHOOSE i \in hits : \A j \in hits : i <= j]>>

\* gameService.joinGame: the checks on the fetched game
JoinPreCheck(row) ==
  /\ row.status = "waiting"
  /\ ~ (Len(row.players) >= MaxPlayers)

\* postgres_changes: a written row goes to every active subscription on it
Publish(q, g, row) ==
  [v \in Viewers |->
     IF sub[v] = "active" /\ gameId[v] = g THEN Append(q[v], row) ELSE q[v]]

\* write row `new` over games[g]; nothing is written, and nothing published,
\* when the statement matched no row
WriteRow(g, new) ==
  IF new = games[g]
  THEN UNCHANGED <<games, feedQ>>
  ELSE /\ games' = [games EXCEPT ![g] = new]
       /\ feedQ' = Publish(feedQ, g, new)

\* ---------------------------------------------------------------------------
\* One-at-a-time executions, for the history variable ser
\* ---------------------------------------------------------------------------

\* gameService.joinGame run with nothing in between its read and its write
ServiceJoinAtomic(row, p_player) ==
  IF JoinPreCheck(row) THEN JoinGameUpdate(row, p_player) ELSE row

\* submit_guess run with nothing in between its statements
SubmitGuessAtomic(row, p_player_id, p_guess, p_result) ==
  LET idx == SubmitGuessSelectIndex(SubmitGuessSelectPlayers(row), p_player_id)
  IN SubmitGuessUpdate(row, idx, p_guess, p_result)

\* ---------------------------------------------------------------------------
\* Initial state
\* ---------------------------------------------------------------------------

InitViewers ==
  /\ pc = [v \in Viewers |-> "idle"]
  /\ gameId = [v \in Viewers |-> 0]
  /\ sub = [v \in Viewers |-> "none"]
  /\ feedQ = [v \in Viewers |-> <<>>]
  /\ fetch = [v \in Viewers |-> "none"]
  /\ fetchResp = [v \in Viewers |-> <<>>]
  /\ game = [v \in Viewers |-> <<>>]
  /\ currentPlayer = [v \in Viewers |-> <<>>]
  /\ isHost = [v \in Viewers |-> FALSE]
  /\ error = [v \in Viewers |-> ""]
  /\ calls = [c \in Calls |-> IdleCall]
  /\ rpcCount = 0
  /\ applied = <<>>

Init ==
  /\ games = <<>>
  /\ ser = <<>>
  /\ InitViewers

\* ---------------------------------------------------------------------------
\* useGameStore.createGame
\* ---------------------------------------------------------------------------

\* createGame up to the catch-up request: gameService.createGame inserts the
\* row (word upper-cased); on success isHost is set, the channel is opened and
\* getGame is requested.  A failed insert is caught: error is set.
CreateGame(v, word) ==
  /\ pc[v] = "idle"
  /\ games = <<>>
  /\ LET w == toUpperCase(word)
         id == Len(games) + 1
     IN IF WordCheck(w)
        THEN /\ games' = Append(games, NewRow(id, randomUUID(v), w))
             /\ ser' = Append(ser, NewRow(id, randomUUID(v), w))
             /\ gameId' = [gameId EXCEPT ![v] = id]
             /\ isHost' = [isHost EXCEPT ![v] = TRUE]
             /\ sub' = [sub EXCEPT ![v] = "pending"]
             /\ fetch' = [fetch EXCEPT ![v] = "requested"]
             /\ pc' = [pc EXCEPT ![v] = "host_sync"]
             /\ UNCHANGED error
        ELSE /\ error' = [error EXCEPT ![v] = "check_violation"]
             /\ pc' = [pc EXCEPT ![v] = "failed"]
             /\ UNCHANGED <<games, ser, gameId, isHost, sub, fetch>>
  /\ UNCHANGED <<feedQ, fetchResp, game, currentPlayer, calls, rpcCount, applied>>

\* ---------------------------------------------------------------------------
\* useGameStore.joinGame
\* ---------------------------------------------------------------------------

\* gameService.joinGame: getGame and the checks on what it read
JoinGameFetch(v, g) ==
  /\ pc[v] = "idle"
  /\ g \in DOMAIN games
  /\ gameId' = [gameId EXCEPT ![v] = g]
  /\ IF JoinPreCheck(games[g])
     THEN /\ pc' = [pc EXCEPT ![v] = "join_rpc"]
          /\ UNCHANGED <<error, ser>>
     ELSE /\ pc' = [pc EXCEPT ![v] = "failed"]
          /\ error' = [error EXCEPT ![v] =
                         IF games[g].status # "waiting" THEN "Game has already started"
                         ELSE "Game is full"]
          /\ \E name \in Names :
               ser' = [ser EXCEPT ![g] = ServiceJoinAtomic(ser[g], NewPlayer(randomUUID(v), name))]
  /\ UNCHANGED <<games, sub, feedQ, fetch, fetchResp, game, currentPlayer, isHost,
                 calls, rpcCount, applied>>

\* gameService.joinGame: rpc('join_game')
JoinGameRpc(v, name) ==
  /\ pc[v] = "join_rpc"
  /\ LET g == gameId[v]
         p == NewPlayer(randomUUID(v), name)
     IN /\ WriteRow(g, JoinGameUpdate(games[g], p))
        /\ ser' = [ser EXCEPT ![g] = ServiceJoinAtomic(ser[g], p)]
  /\ pc' = [pc EXCEPT ![v] = "joined"]
  /\ UNCHANGED <<gameId, sub, fetch, fetchResp, game, currentPlayer, isHost, error,
                 calls, rpcCount, applied>>

\* gameService.joinGame has returned: the store opens the channel and requests
\* the catch-up getGame
JoinGameSubscribe(v) ==
  /\ pc[v] = "joined"
  /\ sub' = [sub EXCEPT ![v] = "pending"]
  /\ fetch' = [fetch EXCEPT ![v] = "requested"]
  /\ pc' = [pc EXCEPT ![v] = "player_sync"]
  /\ UNCHANGED <<games, gameId, feedQ, fetchResp, game, currentPlayer, isHost, error,
                 calls, rpcCount, applied, ser>>

\* ---------------------------------------------------------------------------
\* Synchronisation: subscribeToGame, the catch-up getGame, feed deliveries
\* ---------------------------------------------------------------------------

\* the channel opened by subscribeToGame starts receiving changes
SubscribeActive(v) ==
  /\ sub[v] = "pending"
  /\ sub' = [sub EXCEPT ![v] = "active"]
  /\ UNCHANGED <<games, pc, gameId, feedQ, fetch, fetchResp, game, currentPlayer, isHost,
                 error, calls, rpcCount, applied, ser>>

\* gameService.getGame: the select reads the row
FetchRead(v) ==
  /\ fetch[v] = "requested"
  /\ fetch' = [fetch EXCEPT ![v] = "responded"]
  /\ fetchResp' = [fetchResp EXCEPT ![v] = <<games[gameId[v]]>>]
  /\ UNCHANGED <<games, pc, gameId, sub, feedQ, game, currentPlayer, isHost,
                 error, calls, rpcCount, applied, ser>>

\* the catch-up response arrives: set({ game, ... }), then navigate
FetchArrive(v) ==
  /\ fetch[v] = "responded"
  /\ fetch' = [fetch EXCEPT ![v] = "none"]
  /\ fetchResp' = [fetchResp EXCEPT ![v] = <<>>]
  /\ LET initialGame == fetchResp[v][1]
     IN /\ game' = [game EXCEPT ![v] = <<ToGame(initialGame)>>]
        /\ IF pc[v] = "host_sync"
           THEN /\ isHost' = [isHost EXCEPT ![v] = TRUE]
                /\ UNCHANGED currentPlayer
           ELSE /\ isHost' = [isHost EXCEPT ![v] = FALSE]
                /\ currentPlayer' = [currentPlayer EXCEPT ![v] =
                                       FindPlayer(initialGame.players, randomUUID(v))]
  /\ pc' = [pc EXCEPT ![v] = IF pc[v] = "host_sync" THEN "host" ELSE "play"]
  /\ UNCHANGED <<games, gameId, sub, feedQ, error,
                 calls, rpcCount, applied, ser>>

\* a postgres_changes payload arrives: the subscribeToGame callback runs
FeedDeliver(v) ==
  /\ feedQ[v] # <<>>
  /\ feedQ' = [feedQ EXCEPT ![v] = Tail(@)]
  /\ LET payload == Head(feedQ[v])
     IN /\ game' = [game EXCEPT ![v] = <<ToGame(payload)>>]
        /\ IF pc[v] \in {"host_sync", "host"}
           THEN /\ isHost' = [isHost EXCEPT ![v] = TRUE]
                /\ UNCHANGED currentPlayer
           ELSE /\ isHost' = [isHost EXCEPT ![v] = FALSE]
                /\ currentPlayer' = [currentPlayer EXCEPT ![v] =
                                       FindPlayer(payload.players, randomUUID(v))]
  /\ UNCHANGED <<games, pc, gameId, sub, fetch, fetchResp, error,
                 calls, rpcCount, applied, ser>>

\* ---------------------------------------------------------------------------
\* useGameStore.startGame / endGame
\* ---------------------------------------------------------------------------

\* gameService.updateGameStatus: rpc('update_game_status')
StatusRpc(g, p_status, p_started_at, p_ended_at) ==
  /\ rpcCount < MaxRpcCalls
  /\ rpcCount' = rpcCount + 1
  /\ WriteRow(g, UpdateGameStatus(games[g], p_status, p_started_at, p_ended_at))
  /\ ser' = [ser EXCEPT ![g] = UpdateGameStatus(ser[g], p_status, p_started_at, p_ended_at)]

\* startGame that also sets the status in its own mirror
StartGameOptimistic(v) ==
  /\ game[v] # <<>>
  /\ StatusRpc(game[v][1].id, "playing", Now, NullTs)
  /\ game' = [game EXCEPT ![v] = <<[game[v][1] EXCEPT !.status = "playing"]>>]
  /\ UNCHANGED <<pc, gameId, sub, fetch, fetchResp, currentPlayer, isHost, error,
                 calls, applied>>

StartGame(v) ==
  /\ game[v] # <<>>
  /\ StatusRpc(game[v][1].id, "playing", Now, NullTs)
  /\ UNCHANGED <<pc, gameId, sub, fetch, fetchResp, game, currentPlayer, isHost, error,
                 calls, applied>>

EndGame(v) ==
  /\ game[v] # <<>>
  /\ StatusRpc(game[v][1].id, "finished", NullTs, Now)
  /\ UNCHANGED <<pc, gameId, sub, fetch, fetchResp, game, currentPlayer, isHost, error,
                 calls, applied>>

\* startGame / endGame of a host that is not one of Viewers: it created the
\* session, so its game is non-null
ExternalHost(g) == \A v \in Viewers : games[g].host_id # randomUUID(v)

HostStartGame(g) ==
  /\ g \in DOMAIN games
  /\ ExternalHost(g)
  /\ StatusRpc(g, "playing", Now, NullTs)
  /\ UNCHANGED <<pc, gameId, sub, fetch, fetchResp, game, currentPlayer, isHost, error,
                 calls, applied>>

HostEndGame(g) ==
  /\ g \in DOMAIN games
  /\ ExternalHost(g)
  /\ StatusRpc(g, "finished", NullTs, Now)
  /\ UNCHANGED <<pc, gameId, sub, fetch, fetchResp, game, currentPlayer, isHost, error,
                 calls, applied>>

\* ---------------------------------------------------------------------------
\* useGameStore.submitGuess / resetGame
\* ---------------------------------------------------------------------------

\* submitGuess: gameService.submitGuess sends rpc('submit_guess') with
\* p_game_id, p_player_id and p_guess; submit_guess has a fourth parameter
\* without default, so the rpc is answered with an error, which the action
\* catches: set({ error })
SubmitGuess(v, guess) ==
  /\ game[v] # <<>>
  /\ currentPlayer[v] # <<>>
  /\ error' = [error EXCEPT ![v] = "submit_guess_failed"]
  /\ UNCHANGED <<games, pc, gameId, sub, feedQ, fetch, fetchResp, game, currentPlayer,
                 isHost, calls, rpcCount, applied, ser>>

\* resetGame: set({ game: null, currentPlayer: null, isHost: false, error: null });
\* the channel opened by subscribeToGame stays open
ResetGame(v) ==
  /\ game' = [game EXCEPT ![v] = <<>>]
  /\ currentPlayer' = [currentPlayer EXCEPT ![v] = <<>>]
  /\ isHost' = [isHost EXCEPT ![v] = FALSE]
  /\ error' = [error EXCEPT ![v] = ""]
  /\ UNCHANGED <<games, pc, gameId, sub, feedQ, fetch, fetchResp,
                 calls, rpcCount, applied, ser>>

\* ---------------------------------------------------------------------------
\* submit_guess, called as an rpc with all four parameters
\* ---------------------------------------------------------------------------
\* (gameService.submitGuess sends p_game_id, p_player_id and p_guess only; the
\* function is modelled as its definition reads, p_result included.)

\* the two selects and v_is_correct
SubmitGuessSelect(c, g, p_player_id, p_guess, p_result) ==
  /\ calls[c].pc = "idle"
  /\ \A d \in Calls : d < c => calls[d].pc # "idle"
  /\ rpcCount < MaxRpcCalls
  /\ g \in DOMAIN games
  /\ rpcCount' = rpcCount + 1
  /\ LET v_players == SubmitGuessSelectPlayers(games[g])
     IN /\ calls' = [calls EXCEPT ![c] =
                       [pc |-> "update", p_game_id |-> g, p_player_id |-> p_player_id,
                        p_guess |-> p_guess, p_result |-> p_result,
                        v_players |-> v_players,
                        v_player_index |-> SubmitGuessSelectIndex(v_players, p_player_id),
                        outcome |-> "none"]]
        /\ ser' = IF v_players = <<>>
                  THEN [ser EXCEPT ![g] = SubmitGuessAtomic(ser[g], p_player_id, p_guess, p_result)]
                  ELSE ser
  /\ UNCHANGED <<games, pc, gameId, sub, feedQ, fetch, fetchResp, game, currentPlayer,
                 isHost, error, applied>>

\* the update; a raise aborts the function and writes nothing
SubmitGuessWrite(c) ==
  /\ calls[c].pc = "update"
  /\ LET call == calls[c]
         g == call.p_game_id
         row == games[g]
         raises == SubmitGuessRaises(row, call.v_player_index)
         new == IF raises THEN row
                ELSE SubmitGuessUpdate(row, call.v_player_index, call.p_guess, call.p_result)
     IN /\ WriteRow(g, new)
        /\ calls' = [calls EXCEPT ![c] =
                       [IdleCall EXCEPT !.p_game_id = g,
                                        !.p_player_id = call.p_player_id,
                                        !.v_player_index = call.v_player_index,
                                        !.outcome = IF raises THEN "error"
                                                    ELSE IF new = row THEN "noop" ELSE "applied"]]
        /\ applied' = IF new = row THEN applied
                      ELSE Append(applied,
                                  [game |-> g, player |-> call.p_player_id,
                                   guess |-> call.p_guess, result |-> call.p_result,
                                   winnerWasNull |-> row.winner = <<>>])
        /\ ser' = IF call.v_players = <<>> THEN ser
                  ELSE [ser EXCEPT ![g] = SubmitGuessAtomic(ser[g], call.p_player_id,
                                                            call.p_guess, call.p_result)]
  /\ UNCHANGED <<pc, gameId, sub, fetch, fetchResp, game, currentPlayer, isHost, error,
                 rpcCount>>

\* the ids of the players a session may start with (InitSeeded); the viewers'
\* ids are below them
SeededId(i) == NumViewers + i

\* the player ids the callers pass: an id that is no player's and the ids of
\* the viewers that are players of the session
PlayerIdsOf(g) ==
  {UnknownId} \cup {randomUUID(v) : v \in {w \in Viewers :
      \E i \in DOMAIN games[g].players : games[g].players[i].id = randomUUID(w)}}

\* ---------------------------------------------------------------------------
\* Specification
\* ---------------------------------------------------------------------------

Next ==
  \/ \E v \in Viewers, word \in Words : CreateGame(v, word)
  \/ \E v \in Viewers, g \in DOMAIN games : JoinGameFetch(v, g)
  \/ \E v \in Viewers, name \in Names : JoinGameRpc(v, name)
  \/ \E v \in Viewers : JoinGameSubscribe(v)
  \/ \E v \in Viewers : SubscribeActive(v)
  \/ \E v \in Viewers : FetchRead(v)
  \/ \E v \in Viewers : FetchArrive(v)
  \/ \E v \in Viewers : FeedDeliver(v)
  \/ \E v \in Viewers : StartGame(v)
  \/ \E v \in Viewers : EndGame(v)
  \/ \E v \in Viewers, s \in Submissions : SubmitGuess(v, s[1])
  \/ \E v \in Viewers : ResetGame(v)
  \/ \E g \in DOMAIN games : HostStartGame(g)
  \/ \E g \in DOMAIN games : HostEndGame(g)
  \/ \E c \in Calls, g \in DOMAIN games :
       \E p \in PlayerIdsOf(g), s \in Submissions :
         SubmitGuessSelect(c, g, p, s[1], s[2])
  \/ \E c \in Calls : SubmitGuessWrite(c)

Spec == Init /\ [][Next]_vars

\* The store side, from a waiting session that n players have joined.  The
\* session's host and those players are not among Viewers: the host's
\* startGame / endGame arrive as update_game_status calls.  The viewers join;
\* what they do after the join (subscription, catch-up fetch, mirror) writes
\* only their own store fields, which no SQL function reads.
SeededPlayers(n) == [i \in 1..n |-> NewPlayer(SeededId(i), "ann")]

InitSeeded(n) ==
  /\ games = <<[NewRow(1, SeededId(MaxPlayers), CRANE) EXCEPT
                  !.players = SeededPlayers(n), !.ver = n + 1]>>
  /\ ser = games
  /\ InitViewers

NextStore ==
  \/ \E v \in Viewers, g \in DOMAIN games : JoinGameFetch(v, g)
  \/ \E v \in Viewers, name \in Names : JoinGameRpc(v, name)
  \/ \E g \in DOMAIN games : HostStartGame(g)
  \/ \E g \in DOMAIN games : HostEndGame(g)
  \/ \E c \in Calls, g \in DOMAIN games :
       \E p \in PlayerIdsOf(g), s \in Submissions :
         SubmitGuessSelect(c, g, p, s[1], s[2])
  \/ \E c \in Calls : SubmitGuessWrite(c)

\* the viewers are the first to join
SpecStore == InitSeeded(0) /\ [][NextStore]_vars

\* seven players have joined: the viewers race for the eighth place
SpecFull == InitSeeded(MaxPlayers - 1) /\ [][NextStore]_vars

\* The viewer side: creation, joins and status changes are the mutations the
\* feed carries; every mutation is a whole-row snapshot to the viewer, so the
\* guesses add nothing to how a mirror follows the table.
NextSync ==
  \/ \E v \in Viewers, word \in Words : CreateGame(v, word)
  \/ \E v \in Viewers, g \in DOMAIN games : JoinGameFetch(v, g)
  \/ \E v \in Viewers, name \in Names : JoinGameRpc(v, name)
  \/ \E v \in Viewers : JoinGameSubscribe(v)
  \/ \E v \in Viewers : SubscribeActive(v)
  \/ \E v \in Viewers : FetchRead(v)
  \/ \E v \in Viewers : FetchArrive(v)
  \/ \E v \in Viewers : FeedDeliver(v)
  \/ \E v \in Viewers : StartGame(v)
  \/ \E v \in Viewers : EndGame(v)

SpecSync == Init /\ [][NextSync]_vars

\* The host alone: createGame, its synchronisation, and its startGame /
\* endGame; nobody joins.
NextHost ==
  \/ \E v \in Viewers, word \in Words : CreateGame(v, word)
  \/ \E v \in Viewers : SubscribeActive(v)
  \/ \E v \in Viewers : FetchRead(v)
  \/ \E v \in Viewers : FetchArrive(v)
  \/ \E v \in Viewers : FeedDeliver(v)
  \/ \E v \in Viewers : StartGame(v)
  \/ \E v \in Viewers : EndGame(v)

SpecHost == Init /\ [][NextHost]_vars

\* One player followed alone through every action of the store: a single
\* viewer joins a waiting session whose host is not among Viewers (the host's
\* startGame / endGame arrive as update_game_status calls), synchronises,
\* and calls startGame, endGame, submitGuess and resetGame.  A store action
\* of one viewer reads and writes that viewer's fields only.
NextPlayer ==
  \/ \E v \in Viewers, g \in DOMAIN games :
       (\A w \in Viewers : pc[w] = "idle") /\ JoinGameFetch(v, g)
  \/ \E v \in Viewers, name \in Names : JoinGameRpc(v, name)
  \/ \E v \in Viewers : JoinGameSubscribe(v)
  \/ \E v \in Viewers : SubscribeActive(v)
  \/ \E v \in Viewers : FetchRead(v)
  \/ \E v \in Viewers : FetchArrive(v)
  \/ \E v \in Viewers : FeedDeliver(v)
  \/ \E v \in Viewers : StartGame(v)
  \/ \E v \in Viewers : EndGame(v)
  \/ \E v \in Viewers, s \in Submissions : SubmitGuess(v, s[1])
  \/ \E v \in Viewers : ResetGame(v)
  \/ \E g \in DOMAIN games : HostStartGame(g)
  \/ \E g \in DOMAIN games : HostEndGame(g)

SpecPlayer == InitSeeded(0) /\ [][NextPlayer]_vars

\* ---------------------------------------------------------------------------
\* Properties
\* ---------------------------------------------------------------------------

\* viewer v has got past rpc('join_game')
Joined(v) == pc[v] \in {"joined", "player_sync", "play"}

\* viewer v takes a step of gameService.joinGame (its read or its rpc)
JoinStep(v) ==
  \/ pc[v] = "idle" /\ pc'[v] \in {"join_rpc", "failed"} /\ gameId'[v] \in DOMAIN games
  \/ pc[v] = "join_rpc" /\ pc'[v] = "joined"

\* call c takes a step of submit_guess (its selects or its update)
SubmitStep(c) ==
  \/ calls[c].pc = "idle" /\ calls'[c].pc = "update"
  \/ calls[c].pc = "update" /\ calls'[c].pc = "idle"

PlayerIndex(g, id) == CHOOSE i \in DOMAIN games[g].players : games[g].players[i].id = id

HasPlayer(g, id) == \E i \in DOMAIN games[g].players : games[g].players[i].id = id

\* the index in applied of the last update applied for player id, 0 if none
LastApplied(id) ==
  LET mine == {i \in DOMAIN applied : applied[i].player = id}
  IN IF mine = {} THEN 0 ELSE CHOOSE i \in mine : \A j \in mine : j <= i

\* C1: a session never has more than 8 players, however the joins interleave,
\* and a joinGame step taken while the session has 8 players leaves players
\* as it was.
C1_AtMostEightPlayers ==
  /\ [](\A g \in DOMAIN games : Len(games[g].players) <= MaxPlayers)
  /\ [][\A v \in Viewers :
          (JoinStep(v) /\ Len(games[gameId'[v]].players) = MaxPlayers)
            => games'[gameId'[v]].players = games[gameId'[v]].players]_vars

\* two joins passed the pre-check for the last place; one took it, the other's
\* rpc changed nothing
C1_Witness ==
  \E v \in Viewers :
    /\ Joined(v)
    /\ Len(games[gameId[v]].players) = MaxPlayers
    /\ games[gameId[v]].status = "waiting"
    /\ ~ HasPlayer(gameId[v], randomUUID(v))

\* C2: once winner is non-null no step replaces it or clears it.
C2_WinnerSetOnce ==
  [][\A g \in DOMAIN games :
       games[g].winner # <<>> => games'[g].winner = games[g].winner]_vars

\* a second all-correct guess, by another player, was applied after the
\* winner was recorded
C2_Witness ==
  \E i, j \in DOMAIN applied :
    /\ i < j
    /\ applied[i].player # applied[j].player
    /\ IsCorrect(applied[i].result) /\ applied[i].winnerWasNull
    /\ IsCorrect(applied[j].result) /\ ~ applied[j].winnerWasNull

\* C3: when the last guesses applied for two different players are both all
\* correct and the earlier one met a session without winner, winner is the
\* earlier player and both players are solved.
C3_FirstCorrectWins ==
  \A i, j \in DOMAIN applied :
    ( /\ i < j
      /\ applied[i].player # applied[j].player
      /\ applied[i].game = applied[j].game
      /\ i = LastApplied(applied[i].player)
      /\ j = LastApplied(applied[j].player)
      /\ IsCorrect(applied[i].result) /\ IsCorrect(applied[j].result)
      /\ applied[i].winnerWasNull )
    => LET g == applied[i].game
           p == applied[i].player
           q == applied[j].player
       IN /\ games[g].winner # <<>>
          /\ games[g].winner[1].id = p
          /\ games[g].winner[1].id # q
          /\ games[g].players[PlayerIndex(g, p)].solved
          /\ games[g].players[PlayerIndex(g, q)].solved

\* two submit_guess calls with all-correct results were in flight together
\* (both had selected before either updated) and both were applied
C3_Witness ==
  /\ Len(applied) = 2
  /\ applied[1].player # applied[2].player
  /\ IsCorrect(applied[1].result) /\ IsCorrect(applied[2].result)
  /\ applied[1].winnerWasNull
  /\ \E c, d \in Calls :
       /\ c # d
       /\ calls[c].pc = "idle" /\ calls[c].outcome = "applied"
       /\ calls[d].pc = "idle" /\ calls[d].outcome = "applied"

\* C4: for every player results is as long as guesses and results[i] is the
\* result vector submitted with guesses[i].
C4_ResultsAligned ==
  \A g \in DOMAIN games : \A k \in DOMAIN games[g].players :
    LET player == games[g].players[k]
        mine == SelectSeq(applied, LAMBDA a : a.game = g /\ a.player = player.id)
    IN /\ Len(player.results) = Len(player.guesses)
       /\ Len(player.guesses) = Len(mine)
       /\ \A i \in DOMAIN mine :
            /\ player.guesses[i] = mine[i].guess
            /\ player.results[i] = mine[i].result

\* C5: a player's solved flag, once true, stays true.
C5_SolvedNeverCleared ==
  [][\A g \in DOMAIN games : \A k \in DOMAIN games[g].players :
       games[g].players[k].solved => games'[g].players[k].solved]_vars

\* C6: a submit_guess step on a session that is waiting or finished leaves
\* the session's row (players, winner and the rest) as it was.
C6_SubmitNoopUnlessPlaying ==
  [][\A c \in Calls :
       LET g == IF calls[c].pc = "idle" THEN calls'[c].p_game_id ELSE calls[c].p_game_id
       IN (SubmitStep(c) /\ games[g].status \in {"waiting", "finished"})
            => games'[g] = games[g]]_vars

\* a call selected the players of a playing session, the session finished,
\* and the call's update changed nothing
C6_Witness ==
  \E c \in Calls :
    /\ calls[c].pc = "idle"
    /\ calls[c].outcome = "noop"
    /\ calls[c].v_player_index # NullIdx
    /\ games[calls[c].p_game_id].status = "finished"
    /\ applied = <<>>

\* C7: a joinGame step on a session that is playing or finished leaves
\* players as it was.
C7_JoinNoopUnlessWaiting ==
  [][\A v \in Viewers :
       (JoinStep(v) /\ games[gameId'[v]].status \in {"playing", "finished"})
         => games'[gameId'[v]].players = games[gameId'[v]].players]_vars

\* a join passed its pre-check on a waiting session, the session started,
\* and the join's rpc changed nothing
C7_Witness ==
  \E v \in Viewers :
    /\ Joined(v)
    /\ games[gameId[v]].status \in {"playing", "finished"}
    /\ Len(games[gameId[v]].players) < MaxPlayers
    /\ ~ HasPlayer(gameId[v], randomUUID(v))

\* viewer v has run its initialisation and nothing is in flight towards it
Settled(v) ==
  /\ pc[v] \in {"host", "play"}
  /\ sub[v] = "active"
  /\ fetch[v] = "none"
  /\ feedQ[v] = <<>>

\* C8: a viewer that has run its initialisation (subscription active,
\* catch-up fetch applied) and has no delivery in flight holds the session as
\* the table has it; so if mutations stop the mirrors end equal to the table.
C8_MirrorConverges ==
  \A v \in Viewers :
    Settled(v) => game[v] = <<ToGame(games[gameId[v]])>>

\* C9: a mirror never goes from the state of the table's n-th write back to
\* the state of an earlier write.
C9_MirrorNeverRegresses ==
  [][\A v \in Viewers :
       (game[v] # <<>> /\ game'[v] # <<>>) => game'[v][1].ver >= game[v][1].ver]_vars

\* C10: the table is always what the same calls leave when each runs alone,
\* in the order of their decisive steps (a join's failed pre-check or its rpc,
\* a submit_guess's select of a session not playing or its update).
C10_Serializable == ser = games

\* a submit_guess for a player of the session selected before startGame and
\* updated after it (it raised), and a join pre-checked before startGame and
\* sent its rpc after it
C10_Witness ==
  /\ \E c \in Calls :
       /\ calls[c].pc = "idle"
       /\ calls[c].outcome = "error"
       /\ calls[c].v_player_index = NullIdx
       /\ HasPlayer(calls[c].p_game_id, calls[c].p_player_id)
  /\ \E v \in Viewers :
       /\ Joined(v)
       /\ ~ HasPlayer(gameId[v], randomUUID(v))

\* C11: status only moves forward along waiting, playing, finished: no step
\* takes a playing session back to waiting, and no step takes a finished
\* session to playing or waiting.
C11_StatusForward ==
  [][\A g \in DOMAIN games :
       /\ games[g].status = "playing" => games'[g].status # "waiting"
       /\ games[g].status = "finished" => games'[g].status = "finished"]_vars

\* C12: started_at and ended_at, once set, keep their first value: a later
\* startGame or endGame carrying another timestamp changes neither, startGame
\* never changes ended_at and endGame never changes started_at.
C12_TimestampsSetOnce ==
  [][\A g \in DOMAIN games :
       /\ games[g].started_at # NullTs => games'[g].started_at = games[g].started_at
       /\ games[g].ended_at # NullTs => games'[g].ended_at = games[g].ended_at]_vars

\* C13: createGame with a 5-letter word appends a waiting session with no
\* players, no winner, no timestamps and the word in upper case; createGame
\* with a word of another length adds no session and reports the failure.
C13_CreateGame ==
  [][\A v \in Viewers, word \in Words :
       CreateGame(v, word) =>
         IF Len(word) = WORD_LENGTH
         THEN /\ Len(games') = Len(games) + 1
              /\ LET row == games'[Len(games')]
                 IN /\ row.status = "waiting"
                    /\ row.players = <<>>
                    /\ row.winner = <<>>
                    /\ row.started_at = NullTs
                    /\ row.ended_at = NullTs
                    /\ row.host_id = randomUUID(v)
                    /\ word = <<"c", "r", "a", "n", "e">> => row.word = CRANE
         ELSE /\ games' = games
              /\ error'[v] # ""]_vars

\* one createGame failed on a word of 2 letters and created nothing, another
\* created the session from "crane"
C13_Witness ==
  /\ Len(games) = 1
  /\ games[1].word = CRANE
  /\ \E v, w \in Viewers :
       /\ pc[v] = "failed" /\ error[v] = "check_violation" /\ gameId[v] = 0
       /\ pc[w] = "host_sync" /\ gameId[w] = 1

\* C14: a submit_guess step on a playing session for a player id that no
\* entry of players has leaves the session's row as it was (players and
\* winner included, whatever the result vector), and the call ends with an
\* error.
C14_UnknownPlayerRejected ==
  [][\A c \in Calls :
       LET call == IF calls[c].pc = "idle" THEN calls'[c] ELSE calls[c]
           g == call.p_game_id
       IN (SubmitStep(c) /\ games[g].status = "playing" /\ ~ HasPlayer(g, call.p_player_id))
            => /\ games'[g] = games[g]
               /\ calls[c].pc = "update" => calls'[c].outcome = "error"]_vars

\* a guess for an id that is no player's was submitted to a playing session
\* that has players and no winner; the call ended with an error
C14_Witness ==
  \E c \in Calls :
    /\ calls[c].pc = "idle"
    /\ calls[c].outcome = "error"
    /\ calls[c].p_player_id = UnknownId
    /\ games[calls[c].p_game_id].status = "playing"
    /\ games[calls[c].p_game_id].players # <<>>
    /\ games[calls[c].p_game_id].winner = <<>>

\* C15: no two entries of players have the same id, and an applied
\* submit_guess changes exactly one entry of players, the one with the id it
\* was called for.
C15_UniquePlayerIds ==
  /\ [](\A g \in DOMAIN games : \A i, j \in DOMAIN games[g].players :
          games[g].players[i].id = games[g].players[j].id => i = j)
  /\ [][\A c \in Calls :
          (calls[c].pc = "update" /\ calls'[c].outcome = "applied")
            => LET g == calls[c].p_game_id
                   changed == {k \in DOMAIN games[g].players :
                                 games'[g].players[k] # games[g].players[k]}
               IN /\ Cardinality(changed) = 1
                  /\ \A k \in changed : games[g].players[k].id = calls[c].p_player_id]_vars

\* both viewers joined the session and a guess was applied for each
C15_Witness ==
  /\ Len(games[1].players) = NumViewers
  /\ \A v \in Viewers : \E i \in DOMAIN applied : applied[i].player = randomUUID(v)

\* C16: when a step sets winner, the recorded winner is the player's entry as
\* the step leaves it: solved is true and its guesses hold the winning guess.
C16_WinnerIsPostUpdate ==
  [][\A g \in DOMAIN games :
       (games[g].winner = <<>> /\ games'[g].winner # <<>>)
         => LET w == games'[g].winner[1]
                a == applied'[Len(applied')]
            IN /\ w.solved
               /\ \E i \in DOMAIN w.guesses : w.guesses[i] = a.guess
               /\ \E k \in DOMAIN games'[g].players : games'[g].players[k] = w]_vars

\* C17: startGame, endGame and submitGuess never change a mirror: game and
\* currentPlayer change only in a feed delivery, in the arrival of the
\* catch-up fetch or in resetGame.
C17_NoOptimisticMutation ==
  [][/\ (\E v \in Viewers :
            \/ StartGame(v)
            \/ EndGame(v)
            \/ \E s \in Submissions : SubmitGuess(v, s[1]))
          => (game' = game /\ currentPlayer' = currentPlayer)
     /\ (game' # game \/ currentPlayer' # currentPlayer)
          => \E v \in Viewers : FeedDeliver(v) \/ FetchArrive(v) \/ ResetGame(v)]_vars

\* a status rpc has changed the table, a viewer's submitGuess has run, and
\* that viewer's mirror still shows the waiting session
C17_Witness ==
  \E v \in Viewers :
    /\ game[v] # <<>>
    /\ error[v] = "submit_guess_failed"
    /\ rpcCount > 0
    /\ game[v][1].status = "waiting"
    /\ games[gameId[v]].status # "waiting"

\* C18: a viewer whose joinGame completed without error is a player of the
\* session in the table.
C18_JoinedMeansPlayer ==
  \A v \in Viewers :
    (pc[v] = "play" /\ error[v] = "") => HasPlayer(gameId[v], randomUUID(v))

\* C19: a mirror emptied by resetGame stays empty while the viewer neither
\* creates nor joins a session (its createGame / joinGame has completed and
\* no other is started): no step fills game, currentPlayer or isHost.
C19_ResetStaysEmpty ==
  [][\A v \in Viewers :
       (pc[v] \in {"host", "play"} /\ game[v] = <<>>)
         => (game'[v] = <<>> /\ currentPlayer'[v] = <<>> /\ isHost'[v] = FALSE)]_vars

\* C20: a submit_guess step leaves status, word, host_id, started_at,
\* ended_at, the number and order of players, every player's id and name, and
\* every entry of players of another id as they were.
C20_SubmitFrame ==
  [][\A c \in Calls :
       SubmitStep(c) =>
         LET call == IF calls[c].pc = "idle" THEN calls'[c] ELSE calls[c]
             old == games[call.p_game_id]
             new == games'[call.p_game_id]
         IN /\ new.status = old.status
            /\ new.word = old.word
            /\ new.host_id = old.host_id
            /\ new.started_at = old.started_at
            /\ new.ended_at = old.ended_at
            /\ Len(new.players) = Len(old.players)
            /\ \A k \in DOMAIN old.players :
                 /\ new.players[k].id = old.players[k].id
                 /\ new.players[k].name = old.players[k].name
                 /\ old.players[k].id # call.p_player_id => new.players[k] = old.players[k]]_vars

\* guesses were applied for the first and for the second player of a session
\* of two, the first player's after the second's
C20_Witness ==
  /\ Len(games[1].players) = 2
  /\ \E i, j \in DOMAIN applied :
       /\ i < j
       /\ applied[i].player = games[1].players[2].id
       /\ applied[j].player = games[1].players[1].id

====
